---- MODULE Spec2Model ----
(***************************************************************************)
(* Knowledge Galaxy: radial tree layout, camera and pointer interaction of *)
(* the KnowledgeGalaxy canvas component.                                   *)
(*                                                                         *)
(* Numbers.  The component computes in IEEE doubles; the model computes in *)
(* fixed point.  Lengths (world and screen) are integers in units of 1/U   *)
(* pixel, the camera scale is an integer in units of 1/SU, cosines and     *)
(* sines are integers in units of 1/1000, and every product is rounded to  *)
(* the nearest unit.  An angle is a pair (slot, count) standing for        *)
(* slot * (2*PI / count).                                                  *)
(***************************************************************************)
EXTENDS Integers, Sequences, FiniteSets, TLC

\* ------------------------------------------------------------------ bounds
MaxNodes == 5
\* applyInertia callbacks pending at once
MaxInertiaLoops == 2
\* user inputs (pointer, wheel and button events) followed in one run
MaxInputs == 5
\* a user input arrives at most MaxWait frames after the one before it, or
\* once every scheduled callback has run out
MaxWait == 1
\* wheel events in a long turn of the wheel
WheelBurst == 25
\* clicks on a node while the render loop runs
MaxClicks == 12

\* --------------------------------------------------------- number helpers
U == 100
SU == 100

Abs(a) == IF a < 0 THEN -a ELSE a
Max2(a, b) == IF a > b THEN a ELSE b
Min2(a, b) == IF a < b THEN a ELSE b

\* a / b rounded to the nearest integer, halves upwards (b > 0)
RoundDiv(a, b) == (2 * a + b) \div (2 * b)

\* Math.cos and Math.sin of slot * (2*PI / count), in thousandths
CosTable ==
  << <<1000>>,
     <<1000, -1000>>,
     <<1000, -500, -500>>,
     <<1000, 0, -1000, 0>>,
     <<1000, 309, -809, -809, 309>>,
     <<1000, 500, -500, -1000, -500, 500>>,
     <<1000, 623, -223, -901, -901, -223, 623>> >>

SinTable ==
  << <<0>>,
     <<0, 0>>,
     <<0, 866, -866>>,
     <<0, 1000, 0, -1000>>,
     <<0, 951, 588, -588, -951>>,
     <<0, 866, 866, 0, -866, -866>>,
     <<0, 782, 975, 434, -434, -975, -782>> >>

Cos(slot, count) == CosTable[count][(slot % count) + 1]
Sin(slot, count) == SinTable[count][(slot % count) + 1]

\* ---------------------------------------------------------------- the tree
\* A note tree of n notes with ids 1..n: parent[i] < i is the id of the
\* parent of note i (0 for the root, note 1), the children of a note are
\* ordered by id, filled is the set of notes whose content is non-empty.
\* roots is the list of notes handed to the component as its `notes` prop.

TreeShapes(n) ==
  { p \in [1..n -> 0..(n - 1)] : /\ p[1] = 0
                                 /\ \A i \in 2..n : p[i] >= 1 /\ p[i] < i }

RECURSIVE childrenFrom(_, _, _)
childrenFrom(t, i, j) ==
  IF j > t.n THEN << >>
  ELSE (IF t.parent[j] = i THEN <<j>> ELSE << >>) \o childrenFrom(t, i, j + 1)

\* note.children
children(t, i) == childrenFrom(t, i, i + 1)

\* ------------------------------------------------------------------ layout
RECURSIVE findMaxBranchingDepth(_, _, _)
RECURSIVE maxOverChildren(_, _, _, _)
maxOverChildren(t, kids, idx, depth) ==
  IF idx > Len(kids) THEN 0
  ELSE Max2(findMaxBranchingDepth(t, kids[idx], depth),
            maxOverChildren(t, kids, idx + 1, depth))

findMaxBranchingDepth(t, i, depth) ==
  IF Len(children(t, i)) > 0
  THEN Max2(depth, maxOverChildren(t, children(t, i), 1, depth + 1))
  ELSE 0

RECURSIVE maxBranchingDepthOf(_, _)
maxBranchingDepthOf(t, idx) ==
  IF idx > Len(t.roots) THEN 0
  ELSE Max2(findMaxBranchingDepth(t, t.roots[idx], 0),
            maxBranchingDepthOf(t, idx + 1))

scaleFactor(t) == 1 + maxBranchingDepthOf(t, 1)
baseRadius(t) == 250 * scaleFactor(t)
depthIncrement(t) == 50 * scaleFactor(t)
leafPullIn(t) == 200 * scaleFactor(t)

radiusNoPullIn(t, i, depth) ==
  baseRadius(t) + (depth - 1) * depthIncrement(t)

radiusContentLeaf(t, i, depth) ==
  baseRadius(t) + (depth - 1) * depthIncrement(t)
  - (IF depth > 1 /\ (Len(children(t, i)) = 0 \/ i \notin t.filled)
     THEN leafPullIn(t) ELSE 0)

\* radius of note i placed at the given depth, in pixels
radiusOf(t, i, depth) ==
  baseRadius(t) + (depth - 1) * depthIncrement(t)
  - (IF depth > 1 /\ Len(children(t, i)) = 0 THEN leafPullIn(t) ELSE 0)

effectiveChildrenCount(isRoot, childrenCount) ==
  IF isRoot THEN childrenCount ELSE childrenCount + 1

\* The angles at which (angle + PI) % (2*PI) / angleStep is a half in exact
\* arithmetic and falls just below it in doubles, so that Math.round goes
\* down: <<count of the angle, slot of the angle, effectiveChildrenCount>>.
FloatTieDown == { <<3, 2, 3>>, <<6, 4, 3>> }

\* Math.round(backAngle / angleStep) for angle = aSlot * (2*PI / aCount) and
\* angleStep = 2*PI / eCount
forbiddenSlotOf(aSlot, aCount, eCount) ==
  LET backNum == (2 * aSlot + aCount) % (2 * aCount)
      exact   == RoundDiv(backNum * eCount, 2 * aCount)
  IN  IF <<aCount, aSlot, eCount>> \in FloatTieDown THEN exact - 1 ELSE exact

forbiddenSlot(isRoot, aSlot, aCount, eCount) ==
  IF isRoot THEN -1 ELSE forbiddenSlotOf(aSlot, aCount, eCount)

skipSlotNever(currentSlot, forbidden) == currentSlot

\* if (currentSlot === forbiddenSlot) currentSlot++
skipSlot(currentSlot, forbidden) ==
  IF currentSlot = forbidden THEN currentSlot + 1 ELSE currentSlot

importanceOf(t, i, depth) == 5 - depth

RECURSIVE traverse(_, _, _, _, _, _, _, _)
RECURSIVE placeChildren(_, _, _, _, _, _, _, _, _, _)

\* the forEach that hands depth, not depth + 1, to traverse
RECURSIVE placeChildrenSameDepth(_, _, _, _, _, _, _, _, _, _)
placeChildrenSameDepth(t, kids, idx, currentSlot, forbidden, eCount, depth, nodeX, nodeY, parentId) ==
  IF idx > Len(kids) THEN << >>
  ELSE LET slot == skipSlot(currentSlot, forbidden)
       IN  traverse(t, kids[idx], depth, nodeX, nodeY, slot, eCount, parentId)
           \o placeChildrenSameDepth(t, kids, idx + 1, slot + 1, forbidden, eCount,
                                     depth, nodeX, nodeY, parentId)

\* note.children.forEach(child => ...) with its running currentSlot
placeChildren(t, kids, idx, currentSlot, forbidden, eCount, depth, nodeX, nodeY, parentId) ==
  IF idx > Len(kids) THEN << >>
  ELSE LET slot == skipSlot(currentSlot, forbidden)
       IN  traverse(t, kids[idx], depth + 1, nodeX, nodeY, slot, eCount, parentId)
           \o placeChildren(t, kids, idx + 1, slot + 1, forbidden, eCount,
                            depth, nodeX, nodeY, parentId)

\* The positioned nodes of the subtree of note i, in the order of the pushes
\* to allNodes.  aSlot, aCount: the angle argument, kept in the record.
traverse(t, i, depth, parentX, parentY, aSlot, aCount, parentId) ==
  LET isRoot == depth = 0
      radius == radiusOf(t, i, depth)
      nodeX  == IF isRoot THEN parentX
                ELSE parentX + RoundDiv(Cos(aSlot, aCount) * radius * U, 1000)
      nodeY  == IF isRoot THEN parentY
                ELSE parentY + RoundDiv(Sin(aSlot, aCount) * radius * U, 1000)
      kids   == children(t, i)
      eCount == effectiveChildrenCount(isRoot, Len(kids))
      nodeWithPosition ==
        [ id |-> i, content |-> (i \in t.filled), depth |-> depth,
          importance |-> importanceOf(t, i, depth),
          x |-> nodeX, y |-> nodeY, parent |-> parentId,
          children |-> kids, angleSlot |-> aSlot, angleCount |-> aCount ]
  IN  <<nodeWithPosition>>
      \o (IF Len(kids) > 0
          THEN placeChildren(t, kids, 1, 0,
                             forbiddenSlot(isRoot, aSlot, aCount, eCount),
                             eCount, depth, nodeX, nodeY, i)
          ELSE << >>)

RECURSIVE traverseRoots(_, _)
traverseRoots(t, idx) ==
  IF idx > Len(t.roots) THEN << >>
  ELSE traverse(t, t.roots[idx], 0, 0, 0, 0, 1, 0) \o traverseRoots(t, idx + 1)

\* allNodes of generateNodePositions(noteData)
generateNodePositions(t) == traverseRoots(t, 1)

\* ------------------------------------------------------------------- state
VARIABLES
  notes,          \* the `notes` prop: the tree, its content, the root list
  nodes,          \* useState nodes: the positioned nodes
  camera,         \* useState camera
  isDragging,     \* useState isDragging
  lastMouse,      \* useState lastMouse
  velocity,       \* useState velocity
  hoveredNode,    \* useState hoveredNode: an id, or 0 for null
  noteOverlay,    \* useState noteOverlay: a record, or NoOverlay for null
  animLoops,      \* the requestAnimationFrame loops of the camera animation
                  \* effect, oldest first, each with the camera of the render
                  \* that started it
  safetyTimeout,  \* time left on the effect's setTimeout, or NoTimeout
  inertiaLoops,   \* number of pending applyInertia frame callbacks
  inputs,         \* number of user inputs handled so far
  quiet,          \* frames since the last user input, up to MaxWait + 1
  drag,           \* the drag in progress: where it started, and what ran since
  interactionEffects, \* useState interactionEffects: the life left of each
  galaxyScale,    \* Index: useState galaxyScale, set through onScaleChange
  galaxyOffset,   \* Index: useState galaxyOffset, set through onOffsetChange
  selectedNote,   \* Index: useState selectedNote, set through onNodeClick
  onNodeHover,    \* the onNodeHover call of the last step, or NoCall
  onNodeClick     \* the notes the last step passed to onNodeClick, in order

vars == <<notes, nodes, camera, isDragging, lastMouse, velocity, hoveredNode,
          noteOverlay, animLoops, safetyTimeout, inertiaLoops, inputs, quiet, drag,
          interactionEffects, galaxyScale, galaxyOffset, selectedNote, onNodeHover,
          onNodeClick>>

\* the state of Index that the handlers below leave alone
parentVars == <<galaxyScale, galaxyOffset, selectedNote>>

\* what a streamed snapshot leaves alone
streamVars == <<camera, isDragging, lastMouse, velocity, hoveredNode,
                noteOverlay, animLoops, safetyTimeout, inertiaLoops, inputs,
                quiet, drag, interactionEffects, galaxyScale, galaxyOffset,
                onNodeHover, onNodeClick>>

\* ------------------------------------------------------------------ canvas
\* canvas.width, canvas.height: the size handleResize gave the canvas, pixels
canvasWidth == 800
canvasHeight == 600

\* ------------------------------------------------------------------- time
\* Time is counted in units of 100 ms.  A record that holds animationStart
\* holds instead elapsed = Date.now() - animationStart, kept up to
\* animationDuration: beyond it Math.min(elapsed / animationDuration, 1) is 1.
animationDuration == 6

\* time between two animation frames, in the same unit
FrameGap == 2

NoTimeout == -1

\* ------------------------------------------------------------------ camera
minScale == RoundDiv(SU, 10)
maxScale == 3 * SU

initialCamera ==
  [ scale |-> SU, offset |-> <<0, 0>>,
    targetScale |-> SU, targetOffset |-> <<0, 0>>,
    isAnimating |-> FALSE, elapsed |-> animationDuration ]

\* the layout effect: if (notes.length > 0) generateNodePositions(notes)
layoutEffect(t, old) == IF Len(t.roots) > 0 THEN generateNodePositions(t) ELSE old

\* x and y of a note of the `notes` prop, for a tree whose notes carry them
rawX(i) == (60 * i - 120) * U
rawY(i) == (40 * i - 60) * U

\* ---------------------------------------------------------------- overlay
NoOverlay == [visible |-> FALSE]
NoNote == [id |-> 0]

\* a note as an overlay or a click holds it: a positioned node of `nodes`
\* (raw = FALSE) or a note of the `notes` prop reached through
\* parent.children (raw = TRUE), which has x and y only if the prop had them
positionedNote(nd) ==
  [ id |-> nd.id, raw |-> FALSE, hasXY |-> TRUE, x |-> nd.x, y |-> nd.y,
    parent |-> nd.parent ]

rawNote(t, i) ==
  [ id |-> i, raw |-> TRUE, hasXY |-> t.rawXY,
    x |-> IF t.rawXY THEN rawX(i) ELSE 0,
    y |-> IF t.rawXY THEN rawY(i) ELSE 0,
    parent |-> t.parent[i] ]

\* findParentNode: node.parent || null; the parent of a positioned node is
\* the positioned node it was traversed under, that of a raw note is raw
findParentNode(t, list, note) ==
  IF note.parent = 0 THEN NoNote
  ELSE IF note.raw THEN rawNote(t, note.parent)
  ELSE positionedNote(list[CHOOSE k \in 1..Len(list) : list[k].id = note.parent])

\* findNextSibling: the entry after the note in parent.children, which are
\* notes of the prop, or null
findNextSibling(t, note) ==
  IF note.parent = 0 THEN NoNote
  ELSE LET siblings == children(t, note.parent)
           idx == CHOOSE k \in 1..Len(siblings) : siblings[k] = note.id
       IN  IF idx < Len(siblings) THEN rawNote(t, siblings[idx + 1]) ELSE NoNote

calculateOverlayPosition(cam, note) ==
  IF ~note.hasXY THEN <<20 * U, 20 * U>>
  ELSE
    LET screenX == RoundDiv(note.x * cam.scale, SU) + cam.offset[1] + (canvasWidth * U) \div 2
        screenY == RoundDiv(note.y * cam.scale, SU) + cam.offset[2] + (canvasHeight * U) \div 2
        overlayW == 320 * U
        overlayH == 240 * U
        offset == 50 * U
        x1 == screenX + offset
        x2 == IF x1 + overlayW > canvasWidth * U - 20 * U
              THEN screenX - overlayW - offset ELSE x1
        x3 == IF x2 < 20 * U THEN 20 * U ELSE x2
        y1 == screenY - overlayH \div 2
        y2 == IF y1 < 20 * U THEN 20 * U
              ELSE IF y1 + overlayH > canvasHeight * U - 20 * U
                   THEN canvasHeight * U - overlayH - 20 * U
                   ELSE y1
    IN  <<x3, y2>>

\* a render after which the overlay position effect does not run
overlayEffectSkipped(cam, ov) == ov

\* the overlay position effect, run after every render that changed the
\* camera or the overlay
overlayEffect(cam, ov) ==
  IF ov.visible
  THEN LET newPos == calculateOverlayPosition(cam, ov.note)
       IN  IF newPos # ov.position THEN [ov EXCEPT !.position = newPos] ELSE ov
  ELSE ov

\* setNoteOverlay({ note, position, visible: true }) of handleNodeClick
overlayFor(cam, note) ==
  [visible |-> TRUE, note |-> note, position |-> calculateOverlayPosition(cam, note)]

\* --------------------------------------------------------------- hit test
hitRadius(nd, hovered) ==
  LET imp  == IF nd.importance # 0 THEN nd.importance ELSE 5 - nd.depth
      base == (8 + imp * 2) * U
  IN  IF nd.id = hovered THEN RoundDiv(base * 14, 10) ELSE base

\* distance <= radius, for the node and the pointer in world coordinates
withinRadius(nd, wx, wy, hovered) ==
  LET r  == hitRadius(nd, hovered)
      dx == Abs(wx - nd.x)
      dy == Abs(wy - nd.y)
  IN  /\ dx <= r /\ dy <= r
      /\ dx * dx + dy * dy <= r * r

pointerToWorld(cam, m) ==
  << RoundDiv((m[1] - (canvasWidth * U) \div 2 - cam.offset[1]) * SU, cam.scale),
     RoundDiv((m[2] - (canvasHeight * U) \div 2 - cam.offset[2]) * SU, cam.scale) >>

\* index in `list` of the node nodes.find returns, or 0 for null
getNodeAtPosition(list, cam, hovered, m) ==
  LET w    == pointerToWorld(cam, m)
      hits == { k \in 1..Len(list) : withinRadius(list[k], w[1], w[2], hovered) }
  IN  IF hits = {} THEN 0 ELSE CHOOSE k \in hits : \A j \in hits : k <= j

\* ------------------------------------------------- camera animation effect
\* The effect with dependencies [camera.isAnimating, animateCamera,
\* camera.animationDuration], run after a render in which one of them
\* changed: its cleanup clears the timeout; while animating it starts a
\* frame loop that closes over this render's camera and sets a new timeout.
\* The loop started by an earlier render is never cancelled, so the loops
\* only grow in number.  In a frame every loop writes scale and offset and
\* the last one to run, the newest, decides them; isAnimating is cleared
\* once the loop that started first is past animationDuration.  Of the
\* loops the newest is kept and, before it, one with the greatest elapsed
\* time when that differs.
greatestElapsed(loops) ==
  CHOOSE e \in { loops[k].elapsed : k \in 1..Len(loops) } :
    \A k \in 1..Len(loops) : loops[k].elapsed <= e

pendingLoops(loops) ==
  IF Len(loops) <= 1 THEN loops
  ELSE LET newest == loops[Len(loops)]
           oldest == greatestElapsed(loops)
       IN  IF oldest = newest.elapsed THEN <<newest>>
           ELSE <<[newest EXCEPT !.elapsed = oldest], newest>>

\* the effect without its safety timeout
animationEffectNoTimeout(cam) == NoTimeout

animationEffectLoops(loops, cam) ==
  IF cam.isAnimating THEN pendingLoops(Append(loops, cam)) ELSE loops

animationEffectTimeout(cam) ==
  IF cam.isAnimating THEN animationDuration + 1 ELSE NoTimeout

\* cubicBezierEasing applied between a and b at progress p / animationDuration
interpolate(a, b, p) ==
  LET d3  == animationDuration * animationDuration * animationDuration
      rem == (animationDuration - p) * (animationDuration - p) * (animationDuration - p)
  IN  a + RoundDiv((b - a) * (d3 - rem), d3)

\* animateCamera of the render whose camera is c, applied to the state prev
animateCamera(c, prev) ==
  IF ~c.isAnimating THEN prev
  ELSE
    LET p == Min2(c.elapsed, animationDuration)
        moved == [prev EXCEPT
                    !.scale = interpolate(c.scale, c.targetScale, p),
                    !.offset = << interpolate(c.offset[1], c.targetOffset[1], p),
                                  interpolate(c.offset[2], c.targetOffset[2], p) >>]
    IN  IF p >= animationDuration THEN [moved EXCEPT !.isAnimating = FALSE] ELSE moved

RECURSIVE runLoops(_, _)
runLoops(loops, cam) ==
  IF loops = << >> THEN cam
  ELSE runLoops(Tail(loops), animateCamera(Head(loops), cam))

aged(c, dt) == [c EXCEPT !.elapsed = Min2(@ + dt, animationDuration)]

agedLoops(loops, dt) == pendingLoops([k \in 1..Len(loops) |-> aged(loops[k], dt)])

agedTimeout(t, dt) == IF t = NoTimeout THEN NoTimeout ELSE Max2(0, t - dt)

\* ----------------------------------------------------------------- inertia
\* st = [velocity, offset, alive]: one applyInertia callback
applyInertia(st) ==
  LET newVel == << RoundDiv(st.velocity[1] * 95, 100), RoundDiv(st.velocity[2] * 95, 100) >>
      goesOn == Abs(newVel[1]) * 10 > U \/ Abs(newVel[2]) * 10 > U
  IN  [ velocity |-> newVel,
        offset |-> IF goesOn THEN <<st.offset[1] + newVel[1], st.offset[2] + newVel[2]>>
                   ELSE st.offset,
        alive |-> st.alive + (IF goesOn THEN 1 ELSE 0) ]

RECURSIVE runInertia(_, _)
runInertia(k, st) == IF k = 0 THEN st ELSE runInertia(k - 1, applyInertia(st))

\* -------------------------------------------------------------------- init
WholeTrees ==
  UNION { { [n |-> k, parent |-> p, filled |-> {}, roots |-> <<1>>, rawXY |-> FALSE] :
              p \in TreeShapes(k) } : k \in 1..MaxNodes }

\* The trees the interaction is explored on: root 1 with the children 2, 3
\* and 4; note 4 has no content yet.  The notes of the prop
\* carry x and y or not; the root list is the tree, or the search results
\* 2 and 3.
GalaxyTrees ==
  { [n |-> 4, parent |-> <<0, 1, 1, 1>>, filled |-> {1, 2, 3},
     roots |-> r, rawXY |-> xy] :
       r \in { <<1>>, <<2, 3>> }, xy \in BOOLEAN }
  \ { [n |-> 4, parent |-> <<0, 1, 1, 1>>, filled |-> {1, 2, 3},
       roots |-> <<2, 3>>, rawXY |-> TRUE] }

NoDrag == [active |-> FALSE]

NoCall == [called |-> FALSE]

\* selectedNote is null
NoSelection == [selected |-> FALSE]

\* Index.handleNodeClick: setSelectedNote(note).  The id of a note is the
\* uuidv4() that convertNoteNodeToNote gave it: the place of the note
\* in the tree, and the snapshot that issued it, counted back from the
\* snapshot on display (0), up to 1.
selectNote(id) == [selected |-> TRUE, id |-> id, snapshot |-> 0]

\* convertNoteNodeToNote gives every note of a snapshot a new uuidv4(): the
\* id that selectedNote holds was issued by an earlier snapshot from then on
convertNoteNodeToNote(selection) ==
  IF selection.selected THEN [selection EXCEPT !.snapshot = 1] ELSE selection

\* drawEnhancedNode: isSelected = node.id === selectedNodeId, for a node of
\* the snapshot on display
isSelected(nd, selection) ==
  selection.selected /\ selection.snapshot = 0 /\ selection.id = nd.id

\* createInteractionEffect without prev.slice(-10)
createInteractionEffectUnbounded(effects, life) == Append(effects, life)

\* createInteractionEffect: the list after one more effect of this life
createInteractionEffect(effects, life) ==
  LET n == Len(effects)
  IN  Append(SubSeq(effects, Max2(1, n - 9), n), life)

clickLife == 60

\* prev.filter((_, i) => i !== index), index counted from 1
withoutIndex(effects, index) ==
  [k \in 1..(Len(effects) - (IF index <= Len(effects) THEN 1 ELSE 0)) |->
     IF k < index THEN effects[k] ELSE effects[k + 1]]

\* the updates queued by the forEach of one drawing, from index on, applied
\* to the state in their order: drawn holds the lives the drawing left
RECURSIVE expire(_, _, _)
expire(effects, drawn, index) ==
  IF index > Len(drawn) THEN effects
  ELSE expire(IF drawn[index] <= 0 THEN withoutIndex(effects, index) ELSE effects,
              drawn, index + 1)

\* drawEnhancedBackground, the interaction effects: effect.life-- on every
\* effect of the list, and one filter for every effect whose life is over
drawInteractionEffects(effects) ==
  LET drawn == [k \in 1..Len(effects) |-> effects[k] - 1]
  IN  expire(drawn, drawn, 1)

InitInteraction ==
  /\ camera = initialCamera
  /\ isDragging = FALSE
  /\ lastMouse = <<0, 0>>
  /\ velocity = <<0, 0>>
  /\ hoveredNode = 0
  /\ noteOverlay = NoOverlay
  /\ animLoops = << >>
  /\ safetyTimeout = NoTimeout
  /\ inertiaLoops = 0
  /\ inputs = 0
  /\ quiet = 0
  /\ drag = NoDrag
  /\ interactionEffects = << >>
  /\ galaxyScale = SU
  /\ galaxyOffset = <<0, 0>>
  /\ selectedNote = NoSelection
  /\ onNodeHover = NoCall
  /\ onNodeClick = << >>

InitLayout ==
  /\ notes \in WholeTrees
  /\ nodes = layoutEffect(notes, << >>)
  /\ InitInteraction

Init ==
  /\ notes \in GalaxyTrees
  /\ nodes = layoutEffect(notes, << >>)
  /\ InitInteraction

\* ------------------------------------------------------------ note updates
\* a streamed snapshot in which one more note has content
FillContent ==
  /\ \E i \in (1..notes.n) \ notes.filled :
       notes' = [notes EXCEPT !.filled = @ \cup {i}]
  /\ nodes' = layoutEffect(notes', nodes)
  /\ selectedNote' = convertNoteNodeToNote(selectedNote)
  /\ UNCHANGED streamVars

\* the generation is started again: the tree is empty of content once more
ClearContent ==
  /\ notes.n > 0 /\ notes.filled # {}
  /\ notes' = [notes EXCEPT !.filled = {}]
  /\ nodes' = layoutEffect(notes', nodes)
  /\ selectedNote' = convertNoteNodeToNote(selectedNote)
  /\ UNCHANGED streamVars

NextLayout == FillContent \/ ClearContent

SpecLayout == InitLayout /\ [][NextLayout]_vars

\* ------------------------------------------------------------ user input
\* pointer positions on the canvas, in pixels
PointerPixels == { <<100, 100>>, <<150, 130>> }

\* numbers of wheel events that arrive in a row
WheelRuns == {1, WheelBurst}

PointerPositions == { <<q[1] * U, q[2] * U>> : q \in PointerPixels }

\* where a node is drawn: ctx.translate(width/2 + offset), ctx.scale(scale)
nodeScreen(cam, nd) ==
  << RoundDiv(nd.x * cam.scale, SU) + cam.offset[1] + (canvasWidth * U) \div 2,
     RoundDiv(nd.y * cam.scale, SU) + cam.offset[2] + (canvasHeight * U) \div 2 >>

onCanvas(m) ==
  /\ m[1] >= 0 /\ m[1] <= canvasWidth * U
  /\ m[2] >= 0 /\ m[2] <= canvasHeight * U

NodeCentres ==
  { m \in { nodeScreen(camera, nodes[k]) : k \in 1..Len(nodes) } : onCanvas(m) }

\* the camera animation effect after a render that changed its dependencies
AnimationEffect(cam) ==
  /\ animLoops' = animationEffectLoops(animLoops, cam)
  /\ safetyTimeout' = animationEffectTimeout(cam)

\* handleMouseDown without the test for a clicked node
handleMouseDownNoClick(m) ==
  /\ isDragging' = TRUE
  /\ lastMouse' = m
  /\ velocity' = <<0, 0>>
  /\ onNodeHover' = NoCall
  /\ onNodeClick' = << >>
  /\ UNCHANGED <<notes, nodes, camera, hoveredNode, noteOverlay,
                 animLoops, safetyTimeout, inertiaLoops,
                 interactionEffects, parentVars>>

handleMouseDown(m) ==
  LET k == getNodeAtPosition(nodes, camera, hoveredNode, m)
  IN  IF k # 0
      THEN \* handleNodeClick(clickedNode); return
           /\ noteOverlay' = overlayFor(camera, positionedNote(nodes[k]))
           /\ interactionEffects' = createInteractionEffect(interactionEffects, clickLife)
           /\ selectedNote' = selectNote(nodes[k].id)
           /\ onNodeHover' = NoCall
           /\ onNodeClick' = <<nodes[k].id>>
           /\ UNCHANGED <<notes, nodes, camera, isDragging, lastMouse, velocity,
                          hoveredNode, animLoops, safetyTimeout, inertiaLoops,
                          galaxyScale, galaxyOffset>>
      ELSE /\ isDragging' = TRUE
           /\ lastMouse' = m
           /\ velocity' = <<0, 0>>
           /\ onNodeHover' = NoCall
           /\ onNodeClick' = << >>
           /\ UNCHANGED <<notes, nodes, camera, hoveredNode, noteOverlay,
                          animLoops, safetyTimeout, inertiaLoops,
                          interactionEffects, parentVars>>

handleMouseMove(m) ==
  LET k == getNodeAtPosition(nodes, camera, hoveredNode, m)
      deltaX == m[1] - lastMouse[1]
      deltaY == m[2] - lastMouse[2]
      newOffset == <<camera.offset[1] + deltaX, camera.offset[2] + deltaY>>
  IN  \* newHoveredId !== hoveredNode?.id compares the id of the node found
      \* with itself: it differs only when no node was found (null, undefined)
      /\ hoveredNode' = IF k = 0 THEN 0 ELSE hoveredNode
      /\ onNodeHover' = IF k = 0 THEN [called |-> TRUE, note |-> 0] ELSE NoCall
      /\ onNodeClick' = << >>
      /\ IF isDragging
         THEN /\ velocity' = <<RoundDiv(deltaX, 10), RoundDiv(deltaY, 10)>>
              /\ camera' = [camera EXCEPT !.offset = newOffset]
              /\ galaxyOffset' = newOffset
              /\ lastMouse' = m
              /\ noteOverlay' = overlayEffect(camera', noteOverlay)
              /\ AnimationEffect(camera')
         ELSE UNCHANGED <<velocity, camera, galaxyOffset, lastMouse, noteOverlay,
                          animLoops, safetyTimeout>>
      /\ UNCHANGED <<notes, nodes, isDragging, inertiaLoops, interactionEffects,
                     galaxyScale, selectedNote>>

\* onMouseUp and onMouseLeave
handleMouseUp ==
  /\ isDragging' = FALSE
  /\ IF Abs(velocity[1]) > U \/ Abs(velocity[2]) > U
     THEN /\ inertiaLoops < MaxInertiaLoops
          /\ inertiaLoops' = inertiaLoops + 1
     ELSE UNCHANGED inertiaLoops
  /\ onNodeHover' = NoCall
  /\ onNodeClick' = << >>
  /\ UNCHANGED <<notes, nodes, camera, lastMouse, velocity, hoveredNode,
                 noteOverlay, animLoops, safetyTimeout, interactionEffects, parentVars>>

zoomAdditive(scale, zoomOut) ==
  Max2(minScale, Min2(maxScale, IF zoomOut THEN scale - RoundDiv(SU, 10)
                                ELSE scale + RoundDiv(SU, 10)))

zoomUnclamped(scale, zoomOut) ==
  IF zoomOut THEN RoundDiv(scale * 9, 10) ELSE RoundDiv(scale * 11, 10)

\* newScale of handleWheel; zoomOut: e.deltaY > 0
zoom(scale, zoomOut) ==
  Max2(minScale, Min2(maxScale, IF zoomOut THEN RoundDiv(scale * 9, 10)
                                ELSE RoundDiv(scale * 11, 10)))

\* count wheel events in one direction, each handled and rendered in turn:
\* st = [camera, loops, timeout]
RECURSIVE wheelRun(_, _, _)
wheelRun(count, zoomOut, st) ==
  IF count = 0 THEN st
  ELSE
    LET cam == [st.camera EXCEPT !.scale = zoom(st.camera.scale, zoomOut)]
    IN  wheelRun(count - 1, zoomOut,
                 IF cam.scale # st.camera.scale
                 THEN [ camera |-> cam,
                        loops |-> animationEffectLoops(st.loops, cam),
                        timeout |-> animationEffectTimeout(cam) ]
                 ELSE [st EXCEPT !.camera = cam])

handleWheel(zoomOut, count) ==
  LET st == wheelRun(count, zoomOut,
                     [camera |-> camera, loops |-> animLoops, timeout |-> safetyTimeout])
  IN  /\ camera' = st.camera
      /\ animLoops' = st.loops
      /\ safetyTimeout' = st.timeout
      /\ noteOverlay' = overlayEffect(camera', noteOverlay)
      /\ galaxyScale' = st.camera.scale
      /\ onNodeHover' = NoCall
      /\ onNodeClick' = << >>
      /\ UNCHANGED <<notes, nodes, isDragging, lastMouse, velocity, hoveredNode,
                     inertiaLoops, interactionEffects, galaxyOffset, selectedNote>>

\* the camera focusOnNode sets, or prev when it returns early
focusOnNode(prev, note) ==
  IF ~note.hasXY \/ note.x = 0 \/ note.y = 0 THEN prev
  ELSE
    LET targetScale == Max2(RoundDiv(18 * SU, 10),
                            Min2(RoundDiv(22 * SU, 10), RoundDiv(prev.scale * 15, 10)))
    IN  [prev EXCEPT
           !.targetScale = targetScale,
           !.targetOffset = << (canvasWidth * U) \div 2 - RoundDiv(note.x * targetScale, SU),
                               (canvasHeight * U) \div 2 - RoundDiv(note.y * targetScale, SU) >>,
           !.isAnimating = TRUE,
           !.elapsed = 0]

handleAdvanceToNextSibling ==
  /\ noteOverlay.visible
  /\ LET next == findNextSibling(notes, noteOverlay.note)
     IN  /\ next # NoNote
         /\ camera' = focusOnNode(camera, next)
         /\ noteOverlay' = overlayEffect(camera', overlayFor(camera, next))
         /\ IF camera' # camera
            THEN AnimationEffect(camera')
            ELSE UNCHANGED <<animLoops, safetyTimeout>>
         /\ selectedNote' = selectNote(next.id)
  /\ interactionEffects' = createInteractionEffect(interactionEffects, clickLife)
  /\ onNodeHover' = NoCall
  /\ onNodeClick' = <<findNextSibling(notes, noteOverlay.note).id>>
  /\ UNCHANGED <<notes, nodes, isDragging, lastMouse, velocity, hoveredNode,
                 inertiaLoops, galaxyScale, galaxyOffset>>

handleJumpToParent ==
  /\ noteOverlay.visible
  /\ LET parent == findParentNode(notes, nodes, noteOverlay.note)
     IN  /\ parent # NoNote
         /\ noteOverlay' = overlayFor(camera, parent)
         /\ selectedNote' = selectNote(parent.id)
  /\ onNodeHover' = NoCall
  /\ onNodeClick' = <<findParentNode(notes, nodes, noteOverlay.note).id>>
  /\ UNCHANGED <<notes, nodes, camera, isDragging, lastMouse, velocity, hoveredNode,
                 animLoops, safetyTimeout, inertiaLoops, interactionEffects,
                 galaxyScale, galaxyOffset>>

handleCloseOverlay ==
  /\ noteOverlay.visible
  /\ noteOverlay' = NoOverlay
  /\ onNodeHover' = NoCall
  /\ onNodeClick' = << >>
  /\ UNCHANGED <<notes, nodes, camera, isDragging, lastMouse, velocity, hoveredNode,
                 animLoops, safetyTimeout, inertiaLoops, interactionEffects, parentVars>>

\* Index.handleResetGalaxy, from the mini-map's reset button or the R key
handleResetGalaxy ==
  /\ galaxyScale' = SU
  /\ galaxyOffset' = <<0, 0>>
  /\ onNodeHover' = NoCall
  /\ onNodeClick' = << >>
  /\ UNCHANGED <<notes, nodes, camera, isDragging, lastMouse, velocity, hoveredNode,
                 noteOverlay, animLoops, safetyTimeout, inertiaLoops,
                 interactionEffects, selectedNote>>

\* ------------------------------------------------------------------ frames
\* One animation frame, FrameGap after the last: every pending frame
\* callback runs, the camera loops oldest first, and the component renders.
\* The camera update of applyInertia is made inside the setVelocity updater;
\* whether it lands before or after the updates of the camera loops is left
\* open (inertiaFirst).
frameState(inertiaFirst) ==
  LET cam0   == aged(camera, FrameGap)
      loops0 == agedLoops(animLoops, FrameGap)
      st0    == [velocity |-> velocity, offset |-> cam0.offset, alive |-> 0]
      stA    == runInertia(inertiaLoops, st0)
      camA   == runLoops(loops0, [cam0 EXCEPT !.offset = stA.offset])
      camB   == runLoops(loops0, cam0)
      stB    == runInertia(inertiaLoops,
                           [velocity |-> velocity, offset |-> camB.offset, alive |-> 0])
      cam1   == IF inertiaFirst THEN camA ELSE [camB EXCEPT !.offset = stB.offset]
      st1    == IF inertiaFirst THEN stA ELSE stB
      wrote  == Len(animLoops) > 0 \/ st1.alive > 0
      \* what the last camera loop passed to onScaleChange and onOffsetChange
      told   == IF inertiaFirst THEN camA ELSE camB
  IN  [ camera |-> cam1,
        galaxyScale |-> IF Len(animLoops) > 0 THEN told.scale ELSE galaxyScale,
        galaxyOffset |-> IF Len(animLoops) > 0 THEN told.offset ELSE galaxyOffset,
        velocity |-> st1.velocity,
        inertiaLoops |-> st1.alive,
        animLoops |-> IF wrote THEN animationEffectLoops(loops0, cam1) ELSE loops0,
        safetyTimeout |-> IF wrote THEN animationEffectTimeout(cam1)
                          ELSE agedTimeout(safetyTimeout, FrameGap) ]

\* the state a frame reads and writes
scheduled ==
  [ camera |-> camera, galaxyScale |-> galaxyScale, galaxyOffset |-> galaxyOffset,
    velocity |-> velocity, inertiaLoops |-> inertiaLoops,
    animLoops |-> animLoops, safetyTimeout |-> safetyTimeout ]

Frame(inertiaFirst) ==
  \E f \in {frameState(inertiaFirst)} :
      /\ f # scheduled
      /\ camera' = f.camera
      /\ velocity' = f.velocity
      /\ inertiaLoops' = f.inertiaLoops
      /\ animLoops' = f.animLoops
      /\ safetyTimeout' = f.safetyTimeout
      /\ noteOverlay' = overlayEffect(f.camera, noteOverlay)
      /\ galaxyScale' = f.galaxyScale
      /\ galaxyOffset' = f.galaxyOffset
      /\ onNodeHover' = NoCall
      /\ onNodeClick' = << >>
      /\ UNCHANGED <<notes, nodes, isDragging, lastMouse, hoveredNode,
                     interactionEffects, selectedNote>>

\* the frame driver stalls: FrameGap passes and no frame callback runs
Stall ==
  /\ camera.elapsed < animationDuration \/ safetyTimeout > 0
  /\ camera' = aged(camera, FrameGap)
  /\ animLoops' = agedLoops(animLoops, FrameGap)
  /\ safetyTimeout' = agedTimeout(safetyTimeout, FrameGap)
  /\ onNodeHover' = NoCall
  /\ onNodeClick' = << >>
  /\ UNCHANGED <<notes, nodes, isDragging, lastMouse, velocity, hoveredNode,
                 noteOverlay, inertiaLoops, interactionEffects, parentVars>>

\* the safety timeout fires
SafetyTimeout ==
  /\ safetyTimeout = 0
  /\ camera' = [camera EXCEPT !.isAnimating = FALSE]
  /\ animLoops' = animLoops
  /\ safetyTimeout' = NoTimeout
  /\ onNodeHover' = NoCall
  /\ onNodeClick' = << >>
  /\ UNCHANGED <<notes, nodes, isDragging, lastMouse, velocity, hoveredNode,
                 noteOverlay, inertiaLoops, interactionEffects, parentVars>>

\* nothing is left to run: no frame would change the state, no timer is set
Settled ==
  /\ \A inertiaFirst \in BOOLEAN : frameState(inertiaFirst) = scheduled
  /\ camera.elapsed >= animationDuration
  /\ safetyTimeout = NoTimeout

\* The drag in progress, for the properties of a drag: the offset and the
\* pointer at the mouse-down that started it, and whether a focus animation
\* or an inertia callback has been pending at any time since.
Undisturbed == ~camera'.isAnimating /\ inertiaLoops' = 0

TrackDrag ==
  drag' = IF ~isDragging' THEN NoDrag
          ELSE [drag EXCEPT !.undisturbed = @ /\ Undisturbed]

\* a mouse-down at m starts a drag unless it is a click on a node
StartDrag(m) ==
  IF getNodeAtPosition(nodes, camera, hoveredNode, m) # 0 THEN TrackDrag
  ELSE drag' = [ active |-> TRUE, offset |-> camera.offset, mouse |-> m,
                 undisturbed |-> Undisturbed ]

\* a user input is handled: one more of MaxInputs, in time
UserInput(handler, tracked) ==
  /\ inputs < MaxInputs
  /\ quiet <= MaxWait \/ Settled
  /\ handler
  /\ inputs' = inputs + 1
  /\ quiet' = 0
  /\ tracked

\* a frame callback or a timer runs
Scheduled(callback, frames) ==
  /\ callback
  /\ quiet' = Min2(quiet + frames, MaxWait + 1)
  /\ inputs' = inputs
  /\ TrackDrag

Next ==
  \/ \E m \in PointerPositions \cup NodeCentres : UserInput(handleMouseDown(m), StartDrag(m))
  \/ \E m \in PointerPositions : UserInput(handleMouseMove(m), TrackDrag)
  \/ UserInput(handleMouseUp, TrackDrag)
  \/ \E zoomOut \in BOOLEAN, count \in WheelRuns :
        UserInput(handleWheel(zoomOut, count), TrackDrag)
  \/ UserInput(handleAdvanceToNextSibling, TrackDrag)
  \/ UserInput(handleJumpToParent, TrackDrag)
  \/ UserInput(handleCloseOverlay, TrackDrag)
  \/ UserInput(handleResetGalaxy, TrackDrag)
  \/ \E inertiaFirst \in BOOLEAN : Scheduled(Frame(inertiaFirst), 1)
  \/ Scheduled(Stall, 1)
  \/ Scheduled(SafetyTimeout, 0)

Spec == Init /\ [][Next]_vars

\* Nodes are clicked, Next Sibling starts focus animations and the wheel
\* changes the camera while they run.
NextLive ==
  \/ \E m \in NodeCentres : UserInput(handleMouseDown(m), StartDrag(m))
  \/ UserInput(handleAdvanceToNextSibling, TrackDrag)
  \/ \E zoomOut \in BOOLEAN : UserInput(handleWheel(zoomOut, 1), TrackDrag)
  \/ \E inertiaFirst \in BOOLEAN : Scheduled(Frame(inertiaFirst), 1)
  \/ Scheduled(Stall, 1)
  \/ Scheduled(SafetyTimeout, 0)

InitLive == Init /\ notes.rawXY

\* Time passes also while no frame runs, and a timer that has run out
\* fires; no frame is ever required to run.
SpecLive ==
  /\ InitLive /\ [][NextLive]_vars
  /\ WF_vars(Scheduled(Stall, 1)) /\ WF_vars(Scheduled(SafetyTimeout, 0))

\* The pointer moves over the canvas, over the nodes too, between zooms.
NextHover ==
  \/ \E m \in PointerPositions \cup NodeCentres :
        UserInput(handleMouseMove(m), TrackDrag)
  \/ \E zoomOut \in BOOLEAN, count \in WheelRuns :
        UserInput(handleWheel(zoomOut, count), TrackDrag)

SpecHover == Init /\ [][NextHover]_vars

\* ------------------------------------------------------------------ search
\* GalaxySearch.flattenNotes: the note list and, after each note, its
\* descendants
RECURSIVE flattenNotes(_, _)
flattenNotes(t, list) ==
  IF list = << >> THEN << >>
  ELSE <<Head(list)>> \o flattenNotes(t, children(t, Head(list)))
                      \o flattenNotes(t, Tail(list))

\* allNotes.filter(...): the notes whose title holds the query
RECURSIVE filterNotes(_, _)
filterNotes(list, matching) ==
  IF list = << >> THEN << >>
  ELSE (IF Head(list) \in matching THEN <<Head(list)>> ELSE << >>)
       \o filterNotes(Tail(list), matching)

\* Index.handleSearchResults: displayNotes is searchResults from now on
handleSearchResults(results) ==
  /\ notes' = [notes EXCEPT !.roots = results]
  /\ nodes' = layoutEffect(notes', nodes)
  /\ UNCHANGED <<streamVars, selectedNote>>

\* Index.handleClearSearch: displayNotes is currentNotes again
handleClearSearch ==
  /\ notes' = [notes EXCEPT !.roots = <<1>>]
  /\ nodes' = layoutEffect(notes', nodes)
  /\ UNCHANGED <<streamVars, selectedNote>>

\* the query changes: the titles of the notes of matching hold the new query
search(matching) ==
  handleSearchResults(filterNotes(flattenNotes(notes, <<1>>), matching))

\* a generated tree: every note has content
SearchTrees == { [t EXCEPT !.filled = 1..t.n] : t \in WholeTrees }

InitSearch ==
  /\ notes \in SearchTrees
  /\ nodes = layoutEffect(notes, << >>)
  /\ InitInteraction

NextSearch ==
  \/ \E matching \in SUBSET (1..notes.n) : search(matching)
  \/ handleClearSearch

SpecSearch == InitSearch /\ [][NextSearch]_vars

\* Snapshots are streamed while the partial graph is on display and its
\* nodes are clicked.
NextStream ==
  \/ FillContent
  \/ \E m \in NodeCentres : UserInput(handleMouseDown(m), StartDrag(m))

SpecStream == InitLayout /\ [][NextStream]_vars

\* the centre of the canvas: the root is drawn there by the initial camera
canvasCentre == << (canvasWidth * U) \div 2, (canvasHeight * U) \div 2 >>

\* one frame of the render loop: animate, which draws the effects
animate ==
  /\ Len(nodes) > 0
  /\ interactionEffects # << >>
  /\ interactionEffects' = drawInteractionEffects(interactionEffects)
  /\ onNodeHover' = NoCall
  /\ onNodeClick' = << >>
  /\ UNCHANGED <<notes, nodes, camera, isDragging, lastMouse, velocity, hoveredNode,
                 noteOverlay, animLoops, safetyTimeout, inertiaLoops, parentVars>>

\* one more click of MaxClicks, right after the last or when the effects
\* of the last have faded
Click(m) ==
  /\ inputs < MaxClicks
  /\ quiet <= MaxWait \/ interactionEffects = << >>
  /\ handleMouseDown(m)
  /\ inputs' = inputs + 1
  /\ quiet' = 0
  /\ StartDrag(m)

\* The root is clicked again and again while the render loop draws.
NextEffects ==
  \/ Click(canvasCentre)
  \/ Scheduled(animate, 1)

InitEffects == Init /\ notes.roots = <<1>> /\ ~notes.rawXY

SpecEffects == InitEffects /\ [][NextEffects]_vars

\* ------------------------------------------------------ layout properties
nodeById(id) == nodes[CHOOSE k \in 1..Len(nodes) : nodes[k].id = id]

childNodes(p) == { k \in 1..Len(nodes) : nodes[k].parent = p.id }

\* squared distance of two positioned nodes, in whole pixels
DistSqPx(a, b) ==
  LET dx == RoundDiv(a.x - b.x, U)
      dy == RoundDiv(a.y - b.y, U)
  IN  dx * dx + dy * dy

\* C4: the coordinates of every positioned node are those the layout gives
\* the same tree (same ids, child order and structure) with no content at
\* all: content never moves a node.
C4_LayoutIgnoresContent ==
  LET bare == generateNodePositions([notes EXCEPT !.filled = {}])
  IN  /\ Len(bare) = Len(nodes)
      /\ \A k \in 1..Len(nodes) :
            /\ bare[k].id = nodes[k].id
            /\ bare[k].x = nodes[k].x
            /\ bare[k].y = nodes[k].y

C4_Witness ==
  /\ Len(nodes) >= 4
  /\ \E a, b \in 1..Len(nodes) :
        /\ nodes[a].content /\ ~nodes[b].content
        /\ nodes[a].depth > 1 /\ nodes[b].depth > 1
        /\ nodes[a].children # << >> /\ nodes[b].children = << >>

\* C5: the children of a parent with n children get n pairwise distinct
\* slots, each below effectiveChildrenCount (n for a root, n + 1 otherwise);
\* under a non-root parent no child gets forbiddenSlot, and no child's angle
\* is the back angle itself.
C5_SiblingSlots ==
  \A pk \in 1..Len(nodes) :
    LET p      == nodes[pk]
        isRoot == p.depth = 0
        n      == Len(p.children)
        eCount == effectiveChildrenCount(isRoot, n)
        kids   == childNodes(p)
    IN  n > 0 =>
          /\ Cardinality(kids) = n
          /\ \A a, b \in kids : a # b => nodes[a].angleSlot # nodes[b].angleSlot
          /\ \A a \in kids : /\ nodes[a].angleSlot >= 0
                               /\ nodes[a].angleSlot < eCount
                               /\ nodes[a].angleCount = eCount
          /\ ~isRoot =>
                \A a \in kids :
                  /\ nodes[a].angleSlot #
                       forbiddenSlotOf(p.angleSlot, p.angleCount, eCount)
                  \* slot / eCount # ((angle + PI) % 2*PI) / 2*PI
                  /\ nodes[a].angleSlot * 2 * p.angleCount #
                       ((2 * p.angleSlot + p.angleCount) % (2 * p.angleCount)) * eCount

\* a non-root parent with two children whose forbidden slot, 0, was skipped
C5_Witness ==
  \E pk \in 1..Len(nodes) :
    /\ nodes[pk].depth > 0
    /\ Len(nodes[pk].children) = 2
    /\ forbiddenSlotOf(nodes[pk].angleSlot, nodes[pk].angleCount, 3) = 0
    /\ { nodes[a].angleSlot : a \in childNodes(nodes[pk]) } = {1, 2}

\* the radius stated for a node of the current tree, in whole pixels
C10_Radius(c) ==
  LET s == 1 + maxBranchingDepthOf(notes, 1)
  IN  250 * s + (c.depth - 1) * 50 * s
      - (IF c.children = << >> /\ c.depth > 1 THEN 200 * s ELSE 0)

\* C10: every non-root node lies away from its parent, at the distance
\* baseRadius + (depth-1)*depthIncrement, less leafPullIn exactly for a
\* childless node deeper than 1, which is at least 100 * scaleFactor; a
\* childless grandchild of a root is closer to its parent than baseRadius.
C10_RadiusFromParent ==
  \A k \in 1..Len(nodes) :
    LET c == nodes[k]
        s == 1 + maxBranchingDepthOf(notes, 1)
        r == C10_Radius(c)
    IN  c.depth > 0 =>
          LET p == nodeById(c.parent)
          IN  /\ <<c.x, c.y>> # <<p.x, p.y>>
              /\ r >= 100 * s
              /\ DistSqPx(c, p) >= (r - 3) * (r - 3)
              /\ DistSqPx(c, p) <= (r + 3) * (r + 3)
              /\ (c.depth = 2 /\ c.children = << >>) =>
                    /\ DistSqPx(c, p) < (250 * s) * (250 * s)
                    /\ <<c.x, c.y>> # <<nodeById(p.parent).x, nodeById(p.parent).y>>

\* the chain root -> child -> grandchild, laid out
C10_Witness ==
  /\ notes.n = 3 /\ notes.parent = <<0, 1, 2>>
  /\ Len(nodes) = 3
  /\ nodes[3].depth = 2 /\ nodes[3].parent = 2
  /\ DistSqPx(nodes[3], nodes[2]) < DistSqPx(nodes[2], nodes[1])

\* ------------------------------------------------------ camera properties
\* C1: in every reachable state camera.scale lies in [0.1, 3], whatever the
\* wheel events, drags, inertia frames and focus-animation ticks before it.
C1_ScaleInRange ==
  /\ camera.scale >= RoundDiv(SU, 10)
  /\ camera.scale <= 3 * SU

\* a long turn of the wheel after a focus has ended at the upper clamp
C1_Witness ==
  /\ camera.scale = 3 * SU
  /\ camera.targetScale # SU
  /\ ~camera.isAnimating

C9_WheelMultiplies ==
  [][ \A zoomOut \in BOOLEAN :
        handleWheel(zoomOut, 1) =>
          LET product == IF zoomOut THEN (camera.scale * 9 + 5) \div 10
                         ELSE (camera.scale * 11 + 5) \div 10
          IN  camera'.scale =
                IF product < SU \div 10 THEN SU \div 10
                ELSE IF product > 3 * SU THEN 3 * SU ELSE product ]_vars

\* two wheel events from 1.0, the second a product and not a difference
C9_Witness ==
  /\ inputs = 2
  /\ camera.scale = 81 * (SU \div 100)

\* ---------------------------------------------------- hit-test properties
\* where the nodes are drawn on the canvas, and the other pointer positions
ProbePositions == PointerPositions \cup NodeCentres

\* C6: the pointer at the drawn centre of a positioned node makes
\* getNodeAtPosition return that node, and a pointer farther from the
\* node's centre than its hit radius never returns it.
C6_HitTest ==
  \A k \in 1..Len(nodes) :
    /\ onCanvas(nodeScreen(camera, nodes[k])) =>
         getNodeAtPosition(nodes, camera, hoveredNode, nodeScreen(camera, nodes[k])) = k
    /\ \A m \in ProbePositions :
         LET r == hitRadius(nodes[k], hoveredNode)
         IN  (Abs(pointerToWorld(camera, m)[1] - nodes[k].x) > r
              \/ Abs(pointerToWorld(camera, m)[2] - nodes[k].y) > r) =>
               getNodeAtPosition(nodes, camera, hoveredNode, m) # k

\* C7: a node whose content is empty is never returned by the hit test,
\* wherever the pointer is, the place it would be drawn at included.
C7_EmptyNodeNeverHit ==
  \A k \in 1..Len(nodes) :
    ~nodes[k].content =>
      \A m \in ProbePositions : getNodeAtPosition(nodes, camera, hoveredNode, m) # k

\* id of the node getNodeAtPosition finds under m, 0 when there is none
idUnder(m) ==
  LET k == getNodeAtPosition(nodes, camera, hoveredNode, m)
  IN  IF k = 0 THEN 0 ELSE nodes[k].id

\* C11: a mouse move makes the hovered id the id of the node under the
\* pointer (null when there is none), and onNodeHover is called, with that
\* node, exactly when the id differs from the hovered id before the move.
C11_HoverFollowsPointer ==
  [][\A m \in PointerPositions \cup NodeCentres :
       UserInput(handleMouseMove(m), TrackDrag) =>
         /\ hoveredNode' = idUnder(m)
         /\ onNodeHover'.called <=> (idUnder(m) # hoveredNode)
         /\ onNodeHover'.called => onNodeHover'.note = idUnder(m)]_vars

\* C12: every change of camera.scale or camera.offset (wheel, drag move,
\* inertia frame, focus tick) is reported through onScaleChange or
\* onOffsetChange: after the change the scale and the offset that the parent
\* holds are the camera's.
C12_CameraReported ==
  [][/\ camera'.scale # camera.scale => galaxyScale' = camera'.scale
     /\ camera'.offset # camera.offset => galaxyOffset' = camera'.offset]_vars

\* C13: the selection survives a layout rebuild: when a node is selected and
\* a later streamed snapshot of the same tree replaces the tree, the same
\* node is resolved from selectedNodeId in the new list of positioned nodes.
C13_SelectionSurvives ==
  [][FillContent =>
       \A k \in 1..Len(nodes) :
         isSelected(nodes[k], selectedNote) =>
           \E j \in 1..Len(nodes') :
             nodes'[j].id = nodes[k].id /\ isSelected(nodes'[j], selectedNote')]_vars

\* C14: the list of interaction effects never holds more than 11 effects.
C14_EffectsBounded == Len(interactionEffects) <= 11

C14_Witness == Len(interactionEffects) = 11 /\ inputs = MaxClicks

\* C15: an empty root list yields an empty layout: when the notes handed to
\* the galaxy are [], the list of positioned nodes is empty.
C15_EmptyNotesEmptyLayout == Len(notes.roots) = 0 => nodes = << >>

\* C16: after a reset (the mini-map's reset button or the R shortcut) the
\* camera's scale is 1 and its offset is (0,0).
C16_ResetRestoresCamera ==
  [][UserInput(handleResetGalaxy, TrackDrag) =>
       camera'.scale = SU /\ camera'.offset = <<0, 0>>]_vars

\* the positioned nodes that are the node of this id
positionedAs(id) == { j \in 1..Len(nodes) : nodes[j].id = id }

\* C17: in every list of positioned nodes each root (depth 0) has a null
\* parent, and every other node has exactly one parent: the positioned node
\* it was traversed under, the node of its parent note, with
\* depth = parent.depth + 1 and with the node's id among the parent's children.
C17_ParentLinks ==
  \A k \in 1..Len(nodes) :
    LET nd == nodes[k]
    IN  IF nd.depth = 0 THEN nd.parent = 0
        ELSE /\ Cardinality(positionedAs(nd.parent)) = 1
             /\ nd.parent = notes.parent[nd.id]
             /\ nd.depth = nodeById(nd.parent).depth + 1
             /\ \E c \in 1..Len(nodeById(nd.parent).children) :
                  nodeById(nd.parent).children[c] = nd.id

C17_Witness ==
  \E k \in 1..Len(nodes) : nodes[k].depth = 2 /\ notes.filled # {}

atTarget(cam) == [cam EXCEPT !.scale = cam.targetScale, !.offset = cam.targetOffset]

C20_FocusStartsAnimation ==
  [][UserInput(handleAdvanceToNextSibling, TrackDrag) =>
       /\ camera'.targetScale =
            Min2(RoundDiv(22 * SU, 10),
                 Max2(RoundDiv(18 * SU, 10), RoundDiv(camera.scale * 15, 10)))
       /\ camera'.isAnimating
       /\ camera'.elapsed = 0]_vars

\* C21 as stated: a mouse-down that hits a node calls the node-click handler
\* exactly once, with that node, and leaves isDragging false; a mouse-down
\* that hits no node sets isDragging, stores the pointer as lastMouse, zeroes
\* the velocity and sends no click notification.
C21_MouseDownClicksOrDrags ==
  [][\A m \in PointerPositions \cup NodeCentres :
       UserInput(handleMouseDown(m), StartDrag(m)) =>
         IF idUnder(m) # 0
         THEN onNodeClick' = <<idUnder(m)>> /\ ~isDragging'
         ELSE /\ isDragging' /\ lastMouse' = m /\ velocity' = <<0, 0>>
              /\ onNodeClick' = << >>]_vars

\* C21 amended: the mouse-down that hits a node leaves isDragging as it was.
C21_MouseDownClicksOrDragsAmended ==
  [][\A m \in PointerPositions \cup NodeCentres :
       UserInput(handleMouseDown(m), StartDrag(m)) =>
         IF idUnder(m) # 0
         THEN onNodeClick' = <<idUnder(m)>> /\ isDragging' = isDragging
         ELSE /\ isDragging' /\ lastMouse' = m /\ velocity' = <<0, 0>>
              /\ onNodeClick' = << >>]_vars

C21_Witness ==
  /\ Len(onNodeClick) = 1
  /\ noteOverlay.visible /\ ~noteOverlay.note.raw /\ noteOverlay.note.id = onNodeClick[1]
  /\ isDragging

\* a frame of the animation driver
AnyFrame == \E inertiaFirst \in BOOLEAN : Scheduled(Frame(inertiaFirst), 1)

\* the velocity after one frame of inertia: v * 0.95
decayed(v) == << RoundDiv(v[1] * 95, 100), RoundDiv(v[2] * 95, 100) >>

\* C22, the steps of inertia: after a mouse-up with a velocity component
\* above 1 each frame multiplies the velocity by 0.95 and, until both
\* components are within 0.1, adds it to the offset; a mouse-up with both
\* components within 1 schedules nothing.  No camera animation is pending.
C22_InertiaDecays ==
  [][/\ (AnyFrame /\ inertiaLoops > 0 /\ animLoops = << >>) =>
          /\ velocity' = decayed(velocity)
          /\ camera'.offset =
               IF Abs(velocity'[1]) * 10 > U \/ Abs(velocity'[2]) * 10 > U
               THEN << camera.offset[1] + velocity'[1], camera.offset[2] + velocity'[2] >>
               ELSE camera.offset
     /\ (UserInput(handleMouseUp, TrackDrag)
           /\ Abs(velocity[1]) <= U /\ Abs(velocity[2]) <= U) =>
          inertiaLoops' = inertiaLoops]_vars

\* an effect that is still to be drawn
stillAlive(life) == life > 0

\* C23: in a rendered frame the life of every interaction effect decreases
\* by one, the effects whose life has reached 0 are removed from the list
\* and no effect whose life is still positive is removed, however many
\* effects expire in the frame.
C23_EffectsExpire ==
  [][Scheduled(animate, 1) =>
       interactionEffects' =
         SelectSeq([k \in 1..Len(interactionEffects) |-> interactionEffects[k] - 1],
                   stillAlive)]_vars

\* C24: on a canvas at least 360 wide and 280 tall the 320 x 240 overlay
\* placed at calculateOverlayPosition stays inside the canvas with a margin
\* of 20: 20 <= x, x + 320 <= width - 20, 20 <= y, y + 240 <= height - 20.
C24_OverlayInsideCanvas ==
  noteOverlay.visible =>
    LET pos == calculateOverlayPosition(camera, noteOverlay.note)
    IN  /\ 20 * U <= pos[1] /\ pos[1] + 320 * U <= (canvasWidth - 20) * U
        /\ 20 * U <= pos[2] /\ pos[2] + 240 * U <= (canvasHeight - 20) * U

C26_ZoomAboutCentre ==
  [][\A zoomOut \in BOOLEAN :
       UserInput(handleWheel(zoomOut, 1), TrackDrag) =>
         pointerToWorld(camera', canvasCentre) = pointerToWorld(camera, canvasCentre)]_vars

\* the positioned node of the sibling that Next Sibling advances to
nextSiblingNode ==
  positionedNote(nodeById(findNextSibling(notes, noteOverlay.note).id))

\* C27: Next Sibling, while the overlay shows a node that has a following
\* sibling, acts like a click on that sibling (the click handler is notified
\* with it, the overlay shows it at the position computed from its layout
\* coordinates) and then starts a focus animation towards the sibling's
\* layout position: isAnimating becomes true.
C27_NextSiblingClicksAndFocuses ==
  [][UserInput(handleAdvanceToNextSibling, TrackDrag) =>
       /\ onNodeClick' = <<nextSiblingNode.id>>
       /\ noteOverlay'.visible /\ noteOverlay'.note.id = nextSiblingNode.id
       /\ noteOverlay'.position = calculateOverlayPosition(camera', nextSiblingNode)
       /\ camera'.isAnimating
       /\ camera'.targetOffset = focusOnNode(camera, nextSiblingNode).targetOffset]_vars

C29_NoInertiaWhileDragging ==
  [][(AnyFrame /\ isDragging /\ animLoops = << >>) =>
       camera'.offset = camera.offset]_vars

\* C30: the list of positioned nodes never holds two entries with the same
\* id, whatever root list the application hands to the layout: a generated
\* tree, or the flat list of search results while a search is active.
C30_PositionedIdsUnique ==
  \A id \in 1..MaxNodes : Cardinality(positionedAs(id)) <= 1

====
